---- MODULE Spec2Model ----
(***************************************************************************)
(* Model of generate_disk.py: the layout of CCTag markers on a turntable   *)
(* disk (polygon fit, two-pass marker sizing, quartile label placement)    *)
(* and the rendering sequence of main.                                     *)
(*                                                                         *)
(* Numbers.  Python floats are modelled as fixed-point integers:           *)
(*   - lengths in units of 1/LenScale,                                     *)
(*   - angles and sine/cosine values in units of 1/TrigScale.              *)
(* A product of two fixed-point numbers is FMul, which splits its          *)
(* operands so that no intermediate value leaves 32 bits.  Equalities of   *)
(* the floating-point program are therefore stated up to Tol length units. *)
(***************************************************************************)
EXTENDS Integers, Sequences, FiniteSets

\* ---------------------------------------------------------------- numbers

LenScale == 100
TrigScale == 1000000
\* math.pi, in units of 1/TrigScale
PI == 3141593
\* rounding slack, in length units, for equalities of floating-point values
Tol == 3

Abs(a) == IF a < 0 THEN -a ELSE a

Sgn(a) == IF a < 0 THEN -1 ELSE IF a > 0 THEN 1 ELSE 0

\* a * b / TrigScale for |a|, |b| < 4.6e7, truncated toward zero
FMul(a, b) ==
  LET aa == Abs(a)
      bb == Abs(b)
      a1 == aa \div 1000
      a0 == aa % 1000
      b1 == bb \div 1000
      b0 == bb % 1000
  IN  Sgn(a) * Sgn(b) * (a1 * b1 + (a1 * b0 + a0 * b1) \div 1000 + (a0 * b0) \div 1000000)

\* sin x for 0 <= x <= pi/2: the Taylor polynomial through x^11
SinQ(x) ==
  LET t  == FMul(x, x)
      p5 == TrigScale - t \div 110
      p4 == TrigScale - FMul(t, p5) \div 72
      p3 == TrigScale - FMul(t, p4) \div 42
      p2 == TrigScale - FMul(t, p3) \div 20
      p1 == TrigScale - FMul(t, p2) \div 6
  IN  FMul(x, p1)

\* math.sin for an angle a >= 0
Sin(a) ==
  LET r == a % (2 * PI)
      h == IF r >= PI THEN r - PI ELSE r
      q == IF 2 * h > PI THEN PI - h ELSE h
  IN  IF r >= PI THEN -SinQ(q) ELSE SinQ(q)

\* math.cos for an angle a >= 0
Cos(a) == Sin(a + PI \div 2)

\* ----------------------------------------------------------------- bounds

\* get_marker_positions_and_size called directly: diameters 1..MaxDiameter,
\* 3..MaxSides markers, clearances 0..MaxClearance quarter units and the
\* clearance that is exactly half the edge, integer reduction ratios 0..MaxRatio
MaxDiameter == 12
MaxSides == 8
MaxClearance == 24
MaxRatio == 3
\* main: the pattern file holds 0..MaxLines lines
MaxLines == 8

\* ------------------------------------------------------- Polygon Fitter

get_polygon_inside_circle_corner_positions(num_sides, circle_diameter) ==
  LET radius == circle_diameter \div 2
      angle_increment == (2 * PI) \div num_sides
  IN  [k \in 1..num_sides |->
         LET angle == (k - 1) * angle_increment
         IN  <<radius + FMul(radius, Cos(angle)), radius + FMul(radius, Sin(angle))>>]

\* a slip: the chord of the full central angle 2 pi / N
get_polygon_inside_circle_side_length_full_angle(num_sides, circle_diameter) ==
  LET radius == circle_diameter \div 2
  IN  FMul(2 * radius, Sin((2 * PI) \div num_sides))

get_polygon_inside_circle_side_length(num_sides, circle_diameter) ==
  LET radius == circle_diameter \div 2
  IN  FMul(2 * radius, Sin(PI \div num_sides))

\* ------------------------------------------------- Marker Layout Solver

\* a slip: a radius of exactly zero treated as touching too
TouchingOrZero(side, clearance) == side \div 2 - clearance <= 0

\* "if marker_radius_mm < 0": the markers would touch
Touching(side, clearance) == side \div 2 - clearance < 0

\* a slip: a negative radius clamped to zero
PassRadiusZero(side, clearance) ==
  IF Touching(side, clearance) THEN 0 ELSE side \div 2 - clearance

\* the radius one pass settles on
PassRadius(side, clearance) ==
  IF Touching(side, clearance) THEN side \div 2 ELSE side \div 2 - clearance

\* warn(...) calls of one pass
PassWarnings(side, clearance) == IF Touching(side, clearance) THEN 1 ELSE 0

\* a slip: the marker diameters added to the disk diameter
MarkerCircleDiameterGrown(disk_diameter, reduction_ratio, radius) ==
  LET marker_diameter_mm == 2 * radius
  IN  disk_diameter + reduction_ratio * marker_diameter_mm

MarkerCircleDiameter(disk_diameter, reduction_ratio, radius) ==
  LET marker_diameter_mm == 2 * radius
  IN  disk_diameter - reduction_ratio * marker_diameter_mm

\* --------------------------------------------------------------- state

VARIABLES
  entry,                     \* which function of the module was called
  pc,                        \* position in the running function
  error,                     \* the exception that ended the call, or "none"
  number_of_marker,
  disk_diameter_mm,          \* the solver's disk diameter (main: the inner disk)
  max_distance_between_markers_mm,
  marker_circle_diameter_reduction_ratio,
  positions,
  side_length,
  marker_radius_mm,
  marker_circle_diameter_mm,
  warnings,                  \* number of warn(...) calls so far
  pass1,                     \* history: the side length and radius of pass 1
  marker_cctag_ring_count,
  pattern,                   \* the lines of the pattern file main reads
  add_id,
  add_cross,
  opened,                    \* number of open(input_file) calls
  solved,                    \* number of calls of the layout solver
  markers_positions,
  dwg,                       \* the elements added to the drawing, in order
  created,                   \* svgwrite.Drawing(...) was constructed
  ind,
  saved                      \* <<number of dwg.save calls, number of PDF writes>>

solverVars ==
  <<number_of_marker, disk_diameter_mm, max_distance_between_markers_mm,
    marker_circle_diameter_reduction_ratio, positions, side_length,
    marker_radius_mm, marker_circle_diameter_mm, warnings, pass1, solved>>

mainVars ==
  <<marker_cctag_ring_count, pattern, add_id, add_cross, opened,
    markers_positions, dwg, created, ind, saved>>

vars == <<entry, pc, error, solverVars, mainVars>>

\* ------------------------------------------------------- main: constants

\* reportlab's LETTER page, in points
PageWidth == 612
PageHeight == 792
\* defaults of main and of get_marker_positions_and_size
DefaultDiskDiameter == 120
DefaultBorder == 2
DefaultClearance == 2
DefaultRatio == 2

\* x * mm, reportlab's mm being 72 / 25.4 points
MmToPt(x) == (x * 720) \div 254

cx == (PageWidth * LenScale) \div 2
cy == (PageHeight * LenScale) \div 2

\* main's disk_diameter_mm after "disk_diameter_mm * mm"
OuterDiskDiameter == MmToPt(DefaultDiskDiameter * LenScale)

\* the border is subtracted as it is given, without the mm factor
inner_disk_diameter_mm == OuterDiskDiameter - 2 * (DefaultBorder * LenScale)

\* the two shapes of a pattern line: five ratios (3 rings), seven (4 rings)
Rings3 == <<90, 75, 60, 45, 30>>
Rings4 == <<90, 80, 70, 60, 50, 40, 30>>
LineSet == {Rings3, Rings4}
RingCounts == {2, 3, 4, 5}
PatternFiles == UNION {[1..n -> LineSet] : n \in 0..MaxLines}

\* a slip: every count but 3 falls through to the 4-ring file
ValidRingCountAtLeast3(ring_count) == ring_count >= 3

\* "if ... == 3 / elif ... == 4 / else raise ValueError"
ValidRingCount(ring_count) == ring_count = 3 \/ ring_count = 4

\* a slip: the 3-ring count asserted for both variants
CountOkFiveOnly(ring_count, count) == count = 5

\* the sanity check after the rings of one marker
CountOk(ring_count, count) == IF ring_count = 3 THEN count = 5 ELSE count = 7

\* ------------------------------------------------- quartile label placement

\* a slip: the quartile size floored (total_number // 4)
determine_quartile_floor(total_number, i) ==
  LET quartile_size == total_number \div 4
  IN  IF i < quartile_size THEN 1
      ELSE IF i < 2 * quartile_size THEN 2
      ELSE IF i < 3 * quartile_size THEN 3
      ELSE 4

determine_quartile(total_number, i) ==
  \* i < k * (total_number / 4), the division being real: 4 * i < k * total_number
  IF 4 * i < total_number THEN 1
  ELSE IF 4 * i < 2 * total_number THEN 2
  ELSE IF 4 * i < 3 * total_number THEN 3
  ELSE 4

\* a slip: the offsets of quartiles 2 and 4 exchanged
IdOffsetSignSwapped(id_quartile) ==
  IF id_quartile = 1 THEN <<-1, -1>>
  ELSE IF id_quartile = 2 THEN <<-1, 1>>
  ELSE IF id_quartile = 3 THEN <<1, 1>>
  ELSE <<1, -1>>

\* the signs main gives marker_radius_mm * id_dist_marker_radius_ratio
IdOffsetSign(id_quartile) ==
  IF id_quartile = 1 THEN <<-1, -1>>
  ELSE IF id_quartile = 2 THEN <<1, -1>>
  ELSE IF id_quartile = 3 THEN <<1, 1>>
  ELSE <<-1, 1>>

\* int(x / d) for d > 0: Python's int truncates toward zero
IntTrunc(x, d) == Sgn(x) * (Abs(x) \div d)

\* --------------------------------------------------------- drawing elements

Element(kind, m, x, y, x2, y2, r, fill, q) ==
  [kind |-> kind, m |-> m, x |-> x, y |-> y, x2 |-> x2, y2 |-> y2,
   r |-> r, fill |-> fill, q |-> q]

\* the two circles of the disk outline
DiskElements ==
  << Element("disk", -1, cx, cy, 0, 0, OuterDiskDiameter \div 2, "black", 0),
     Element("disk", -1, cx, cy, 0, 0, inner_disk_diameter_mm \div 2, "white", 0) >>

\* the label of marker i: text i + 1 at the quartile's diagonal offset
IdElement(i, center, radius, total) ==
  LET id_quartile == determine_quartile(total, i)
      sign == IdOffsetSign(id_quartile)
      dist == (radius * 3) \div 2
  IN  Element("id", i, center[1] + sign[1] * dist, center[2] + sign[2] * dist,
              0, 0, IntTrunc(radius, 2 * LenScale), "none", id_quartile)

OuterElement(i, center, radius) ==
  Element("marker", i, center[1], center[2], 0, 0, radius, "black", 0)

\* the rings of one pattern line, white first, colours alternating
RingElements(i, center, radius, line) ==
  [j \in 1..Len(line) |->
     Element("ring", i, center[1], center[2], 0, 0, (radius * line[j]) \div 100,
             IF j % 2 = 1 THEN "white" ELSE "black", 0)]

\* the crosshair: two gray lines of half length 0.7 * the innermost ring
CrossElements(i, center, inner_radius) ==
  LET half == (inner_radius * 7) \div 10
  IN  << Element("cross", i, center[1] - half, center[2], center[1] + half, center[2],
                 0, "gray", 0),
         Element("cross", i, center[1], center[2] - half, center[1], center[2] + half,
                 0, "gray", 0) >>

SeqMax(f) == CHOOSE v \in {f[k] : k \in DOMAIN f} : \A k \in DOMAIN f : f[k] <= v

\* main's shift of the solver's positions onto the page
Recenter(pos) ==
  LET max_x == SeqMax([k \in DOMAIN pos |-> pos[k][1]])
      max_y == SeqMax([k \in DOMAIN pos |-> pos[k][2]])
  IN  [k \in DOMAIN pos |->
         <<cx + (pos[k][1] - max_x \div 2), cy + (pos[k][2] - max_y \div 2)>>]

\* ------------------------------------------------------------ initial states

\* a direct call get_marker_positions_and_size(D, N, clearance, ratio)
InitSolver ==
  /\ entry = "solver"
  /\ pc = "pass1"
  /\ number_of_marker \in 3..MaxSides
  /\ disk_diameter_mm \in {d * LenScale : d \in 1..MaxDiameter}
  /\ max_distance_between_markers_mm \in
       {k * (LenScale \div 4) : k \in 0..MaxClearance}
         \cup {get_polygon_inside_circle_side_length(number_of_marker, disk_diameter_mm) \div 2}
  /\ marker_circle_diameter_reduction_ratio \in 0..MaxRatio
  /\ solved = 1
  /\ marker_cctag_ring_count = 3
  /\ pattern = <<>>
  /\ add_id = FALSE
  /\ add_cross = FALSE

\* a call of main with the default geometry, on one pattern file
InitMain ==
  /\ entry = "main"
  /\ pc = "main"
  /\ number_of_marker = 0
  /\ disk_diameter_mm = 0
  /\ max_distance_between_markers_mm = 0
  /\ marker_circle_diameter_reduction_ratio = 0
  /\ solved = 0
  /\ marker_cctag_ring_count \in RingCounts
  /\ pattern \in PatternFiles
  /\ add_id \in BOOLEAN
  /\ add_cross \in BOOLEAN

Init ==
  /\ InitSolver \/ InitMain
  /\ error = "none"
  /\ positions = <<>>
  /\ side_length = 0
  /\ marker_radius_mm = 0
  /\ marker_circle_diameter_mm = 0
  /\ warnings = 0
  /\ pass1 = <<0, 0>>
  /\ opened = 0
  /\ markers_positions = <<>>
  /\ dwg = <<>>
  /\ created = FALSE
  /\ ind = 0
  /\ saved = <<0, 0>>

\* ------------------------------------------- get_marker_positions_and_size

\* first iteration: the polygon that fits exactly on the disk
Pass1 ==
  /\ pc = "pass1"
  /\ IF number_of_marker = 0
     THEN \* 2 * math.pi / num_sides
          /\ error' = "ZeroDivisionError"
          /\ pc' = "failed"
          /\ UNCHANGED <<positions, side_length, marker_radius_mm, warnings, pass1>>
     ELSE LET side == get_polygon_inside_circle_side_length(number_of_marker, disk_diameter_mm)
          IN  /\ positions' = get_polygon_inside_circle_corner_positions(number_of_marker, disk_diameter_mm)
              /\ side_length' = side
              /\ marker_radius_mm' = PassRadius(side, max_distance_between_markers_mm)
              /\ warnings' = warnings + PassWarnings(side, max_distance_between_markers_mm)
              /\ pass1' = <<side, PassRadius(side, max_distance_between_markers_mm)>>
              /\ pc' = "correct"
              /\ UNCHANGED error
  /\ UNCHANGED <<entry, number_of_marker, disk_diameter_mm, max_distance_between_markers_mm,
                 marker_circle_diameter_reduction_ratio, marker_circle_diameter_mm, solved,
                 mainVars>>

\* the diameter of the circle the markers are placed on
Correct ==
  /\ pc = "correct"
  /\ marker_circle_diameter_mm' =
       MarkerCircleDiameter(disk_diameter_mm, marker_circle_diameter_reduction_ratio,
                            marker_radius_mm)
  /\ pc' = "pass2"
  /\ UNCHANGED <<entry, error, number_of_marker, disk_diameter_mm,
                 max_distance_between_markers_mm, marker_circle_diameter_reduction_ratio,
                 positions, side_length, marker_radius_mm, warnings, pass1, solved, mainVars>>

\* second iteration, and the return to the caller
Pass2 ==
  /\ pc = "pass2"
  /\ LET side == get_polygon_inside_circle_side_length(number_of_marker, marker_circle_diameter_mm)
     IN  /\ positions' = get_polygon_inside_circle_corner_positions(number_of_marker, marker_circle_diameter_mm)
         /\ side_length' = side
         /\ marker_radius_mm' = PassRadius(side, max_distance_between_markers_mm)
         /\ warnings' = warnings + PassWarnings(side, max_distance_between_markers_mm)
  /\ pc' = IF entry = "solver" THEN "done" ELSE "recenter"
  /\ UNCHANGED <<entry, error, number_of_marker, disk_diameter_mm,
                 max_distance_between_markers_mm, marker_circle_diameter_reduction_ratio,
                 marker_circle_diameter_mm, pass1, solved, mainVars>>

\* ---------------------------------------------------------------------- main

\* the page and disk sizes, then the choice of the pattern file
MainStart ==
  /\ pc = "main"
  /\ IF ValidRingCount(marker_cctag_ring_count)
     THEN pc' = "count" /\ UNCHANGED error
     ELSE pc' = "failed" /\ error' = "ValueError"
  /\ UNCHANGED <<entry, solverVars, mainVars>>

\* with open(input_file): number_of_marker = the number of lines
MainCount ==
  /\ pc = "count"
  /\ opened' = opened + 1
  /\ number_of_marker' = Len(pattern)
  /\ pc' = "solve"
  /\ UNCHANGED <<entry, error, disk_diameter_mm, max_distance_between_markers_mm,
                 marker_circle_diameter_reduction_ratio, positions, side_length,
                 marker_radius_mm, marker_circle_diameter_mm, warnings, pass1, solved,
                 marker_cctag_ring_count, pattern, add_id, add_cross, markers_positions,
                 dwg, created, ind, saved>>

\* the call of the solver on the inner disk, clearance and ratio at their defaults
MainSolve ==
  /\ pc = "solve"
  /\ disk_diameter_mm' = inner_disk_diameter_mm
  /\ max_distance_between_markers_mm' = DefaultClearance * LenScale
  /\ marker_circle_diameter_reduction_ratio' = DefaultRatio
  /\ solved' = solved + 1
  /\ pc' = "pass1"
  /\ UNCHANGED <<entry, error, number_of_marker, positions, side_length, marker_radius_mm,
                 marker_circle_diameter_mm, warnings, pass1, mainVars>>

\* the shift of the positions to the centre of the page
MainRecenter ==
  /\ pc = "recenter"
  /\ markers_positions' = Recenter(positions)
  /\ pc' = "draw"
  /\ UNCHANGED <<entry, error, solverVars, marker_cctag_ring_count, pattern, add_id,
                 add_cross, opened, dwg, created, ind, saved>>

\* the drawing with the disk outline; the pattern file is opened again
MainDraw ==
  /\ pc = "draw"
  /\ created' = TRUE
  /\ dwg' = DiskElements
  /\ opened' = opened + 1
  /\ ind' = 0
  /\ pc' = "render"
  /\ UNCHANGED <<entry, error, solverVars, marker_cctag_ring_count, pattern, add_id,
                 add_cross, markers_positions, saved>>

\* one iteration of the loop over the pattern lines
MainRenderMarker ==
  /\ pc = "render"
  /\ ind < Len(pattern)
  /\ LET line == pattern[ind + 1]
         marker_center == markers_positions[ind + 1]
         ids == IF add_id
                THEN <<IdElement(ind, marker_center, marker_radius_mm, number_of_marker)>>
                ELSE <<>>
         rings == RingElements(ind, marker_center, marker_radius_mm, line)
         drawn == dwg \o ids \o <<OuterElement(ind, marker_center, marker_radius_mm)>> \o rings
     IN  IF CountOk(marker_cctag_ring_count, Len(line))
         THEN /\ dwg' = IF add_cross
                        THEN drawn \o CrossElements(ind, marker_center, rings[Len(rings)].r)
                        ELSE drawn
              /\ ind' = ind + 1
              /\ UNCHANGED <<pc, error>>
         ELSE /\ dwg' = drawn
              /\ error' = "AssertionError"
              /\ pc' = "failed"
              /\ UNCHANGED ind
  /\ UNCHANGED <<entry, solverVars, marker_cctag_ring_count, pattern, add_id, add_cross,
                 opened, markers_positions, created, saved>>

\* dwg.save(pretty=True)
MainSave ==
  /\ pc = "render"
  /\ ind = Len(pattern)
  /\ saved' = <<saved[1] + 1, saved[2]>>
  /\ pc' = "pdf"
  /\ UNCHANGED <<entry, error, solverVars, marker_cctag_ring_count, pattern, add_id,
                 add_cross, opened, markers_positions, dwg, created, ind>>

\* svg2rlg and renderPDF.drawToFile
MainPdf ==
  /\ pc = "pdf"
  /\ saved' = <<saved[1], saved[2] + 1>>
  /\ pc' = "done"
  /\ UNCHANGED <<entry, error, solverVars, marker_cctag_ring_count, pattern, add_id,
                 add_cross, opened, markers_positions, dwg, created, ind>>

Next ==
  \/ Pass1
  \/ Correct
  \/ Pass2
  \/ MainStart
  \/ MainCount
  \/ MainSolve
  \/ MainRecenter
  \/ MainDraw
  \/ MainRenderMarker
  \/ MainSave
  \/ MainPdf

Spec == Init /\ [][Next]_vars

\* ------------------------------------------------------------------- claims

\* the solver has run its first pass / both passes
AfterPass1 == solved = 1 /\ pc # "pass1" /\ error # "ZeroDivisionError"
AfterPass2 == AfterPass1 /\ pc \notin {"correct", "pass2"}
SolverDone == entry = "solver" /\ pc = "done"

\* the labels and the marker outlines in the drawing
Ids == {dwg[k] : k \in {j \in DOMAIN dwg : dwg[j].kind = "id"}}
IsMarker(e) == e.kind = "marker"
Markers == SelectSeq(dwg, IsMarker)

\* C1: the solver returns a marker radius >= 0 for every D > 0, N >= 3,
\* clearance >= 0 and reduction ratio >= 0.
C1_RadiusNonNegative == SolverDone => marker_radius_mm >= 0

\* C2: in the returned layout the edge length of the pass-2 polygon minus twice
\* the radius is the clearance when pass 2 did not clamp, and 0 when it did
\* (one length unit of fixed-point rounding allowed).
C2_GapIsClearance ==
  SolverDone =>
    LET gap == side_length - 2 * marker_radius_mm
    IN  IF side_length \div 2 - max_distance_between_markers_mm < 0
        THEN gap \in {0, 1}
        ELSE gap - max_distance_between_markers_mm \in {0, 1}

\* C3: in each pass, a negative edge/2 - clearance gives the radius edge/2 and
\* one warning, a value >= 0 is kept and gives none; the warnings of a call are
\* the clamped passes, and the solver raises nothing.
C3_ClampAndWarn ==
  LET c  == max_distance_between_markers_mm
      w1 == IF pass1[1] \div 2 - c < 0 THEN 1 ELSE 0
      w2 == IF side_length \div 2 - c < 0 THEN 1 ELSE 0
  IN  /\ AfterPass1 =>
           /\ pass1[2] = (IF w1 = 1 THEN pass1[1] \div 2 ELSE pass1[1] \div 2 - c)
           /\ pc \in {"correct", "pass2"} => warnings = w1
      /\ AfterPass2 =>
           /\ marker_radius_mm = (IF w2 = 1 THEN side_length \div 2 ELSE side_length \div 2 - c)
           /\ warnings = w1 + w2
           /\ (warnings >= 1) = (w1 = 1 \/ w2 = 1)
      /\ entry = "solver" => error = "none"

\* a call that clamped in pass 2 only: exactly one warning
C3_Witness ==
  /\ SolverDone
  /\ warnings = 1
  /\ pass1[1] \div 2 - max_distance_between_markers_mm >= 0
  /\ marker_radius_mm = side_length \div 2

\* the diameter the current positions and side length were fitted to
FitDiameter ==
  IF pc \in {"correct", "pass2"} THEN disk_diameter_mm ELSE marker_circle_diameter_mm

\* C4: the fit returns N vertices, and every two consecutive vertices (the last
\* and the first included) are one side length apart, up to Tol.
C4_ConsecutiveVerticesOneSide ==
  (AfterPass1 /\ number_of_marker >= 3 /\ FitDiameter > 0) =>
    /\ Len(positions) = number_of_marker
    /\ \A k \in 1..number_of_marker :
         LET p  == positions[k]
             n  == positions[(k % number_of_marker) + 1]
             d2 == (n[1] - p[1]) * (n[1] - p[1]) + (n[2] - p[2]) * (n[2] - p[2])
             lo == IF side_length > Tol THEN side_length - Tol ELSE 0
             hi == side_length + Tol
         IN  lo * lo <= d2 /\ d2 <= hi * hi

C4_Witness ==
  /\ SolverDone
  /\ number_of_marker = 7
  /\ marker_circle_diameter_mm > 4 * LenScale
  /\ side_length > LenScale

\* C5: a ring count other than 3 or 4 ends main with ValueError before the
\* pattern file is opened, the solver called, a drawing made or a file written.
C5_InvalidRingCountFailsFirst ==
  /\ (entry = "main" /\ pc # "main" /\ marker_cctag_ring_count \notin {3, 4}) =>
       /\ error = "ValueError" /\ pc = "failed"
       /\ opened = 0 /\ solved = 0 /\ ~created /\ dwg = <<>> /\ saved = <<0, 0>>
       /\ positions = <<>> /\ markers_positions = <<>>
  /\ error = "ValueError" => marker_cctag_ring_count \notin {3, 4}

C5_Witness == error = "ValueError" /\ marker_cctag_ring_count = 5 /\ Len(pattern) >= 3

\* C6: a pattern line without exactly 5 (3 rings) or 7 (4 rings) values aborts
\* main with an assertion failure at that marker, nothing being saved; otherwise
\* the markers are rendered in line order and the output is saved once, after
\* the last one.
C6_AssertOrRenderAllThenSave ==
  LET need == IF marker_cctag_ring_count = 3 THEN 5 ELSE 7
      good(k) == Len(pattern[k]) = need
  IN  /\ error = "AssertionError" =>
           /\ saved = <<0, 0>>
           /\ ind < Len(pattern) /\ ~good(ind + 1)
           /\ \A k \in 1..ind : good(k)
           /\ Len(Markers) = ind + 1
      /\ (entry = "main" /\ \A k \in 1..Len(pattern) : good(k)) => error # "AssertionError"
      /\ \A k \in 1..Len(Markers) : Markers[k].m = k - 1
      /\ pc = "render" => Len(Markers) = ind
      /\ saved[1] <= 1 /\ saved[2] <= saved[1]
      /\ saved[1] = 1 =>
           /\ ind = Len(pattern) /\ Len(Markers) = Len(pattern)
           /\ \A k \in 1..Len(pattern) : good(k)
      /\ (entry = "main" /\ pc = "done") => saved = <<1, 1>>
      /\ (entry = "main" /\ pc \in {"render", "pdf"}) => ENABLED Next

\* an abort at a later marker, the earlier ones rendered
C6_Witness == error = "AssertionError" /\ ind >= 2 /\ Len(dwg) > 2

\* C7: determine_quartile(N, i) is the least k in 1..3 with i < k * N / 4 (real
\* division, strict), 4 if there is none; it is non-decreasing in i; for N = 8
\* the indices 0-1, 2-3, 4-5, 6-7 give 1, 2, 3, 4; the buckets give the offset
\* signs (-,-), (+,-), (+,+), (-,+).
C7_QuartileAndSigns ==
  \A e \in Ids :
    LET K    == {k \in 1..3 : 4 * e.m < k * number_of_marker}
        dist == (marker_radius_mm * 3) \div 2
        c    == markers_positions[e.m + 1]
    IN  /\ e.q \in 1..4
        /\ e.q = (IF K = {} THEN 4 ELSE CHOOSE k \in K : \A j \in K : k <= j)
        /\ \A f \in Ids : e.m <= f.m => e.q <= f.q
        /\ number_of_marker = 8 => e.q = (e.m \div 2) + 1
        /\ <<e.x - c[1], e.y - c[2]>> =
             (CASE e.q = 1 -> <<-dist, -dist>>
                [] e.q = 2 -> <<dist, -dist>>
                [] e.q = 3 -> <<dist, dist>>
                [] OTHER   -> <<-dist, dist>>)

C7_Witness ==
  /\ number_of_marker = 8
  /\ Cardinality(Ids) = 8
  /\ {e.q : e \in Ids} = 1..4
  /\ marker_radius_mm > 0

\* C8: the pass-2 placement circle is no larger than the disk, and the final
\* radius is at most half the pass-1 edge length.
C8_PlacementCircleAndRadiusBounded ==
  /\ (AfterPass1 /\ pc # "correct" /\ number_of_marker >= 3) =>
       marker_circle_diameter_mm <= disk_diameter_mm
  /\ (AfterPass2 /\ number_of_marker >= 3) => 2 * marker_radius_mm <= pass1[1]

C8_Witness ==
  /\ SolverDone
  /\ marker_circle_diameter_reduction_ratio > 0
  /\ marker_circle_diameter_mm < disk_diameter_mm
  /\ marker_radius_mm > 0
  /\ 2 * marker_radius_mm < pass1[1]

\* where marker m sits relative to the centre of the placement circle, and
\* where its label sits relative to the marker
Displacement(m) ==
  << positions[m + 1][1] - marker_circle_diameter_mm \div 2,
     positions[m + 1][2] - marker_circle_diameter_mm \div 2 >>
LabelOffset(e) ==
  << e.x - markers_positions[e.m + 1][1], e.y - markers_positions[e.m + 1][2] >>

\* a layout with a positive placement circle and a positive marker radius
ProperLayout == marker_circle_diameter_mm > 0 /\ marker_radius_mm > 0

\* C9 as stated: on each axis on which a marker is displaced from the centre,
\* its label offset has the sign of the displacement (the labels point outward).
\* Stated on proper layouts of N >= 3 markers, where no sign is degenerate.
C9_LabelsOutward ==
  (number_of_marker >= 3 /\ ProperLayout) =>
    \A e \in Ids : \A a \in 1..2 :
      Abs(Displacement(e.m)[a]) > Tol => Sgn(LabelOffset(e)[a]) = Sgn(Displacement(e.m)[a])

\* C9 amended: on each such axis the label offset has the opposite sign (the
\* labels point inward, toward the centre); it is zero only for a zero radius.
C9_LabelsInward ==
  number_of_marker >= 3 =>
    \A e \in Ids : \A a \in 1..2 :
      Abs(Displacement(e.m)[a]) > Tol =>
        /\ Sgn(LabelOffset(e)[a]) # Sgn(Displacement(e.m)[a])
        /\ marker_radius_mm # 0 => Sgn(LabelOffset(e)[a]) = -Sgn(Displacement(e.m)[a])

C9_Witness ==
  /\ entry = "main" /\ pc = "done"
  /\ number_of_marker = 7
  /\ Cardinality(Ids) = 7
  /\ marker_radius_mm > 0
  /\ \E e \in Ids : \A a \in 1..2 : Abs(Displacement(e.m)[a]) > Tol

\* C10: after the shift, the bounding box of the marker positions is centred
\* on the page centre (cx, cy), for every N >= 3 (up to Tol per coordinate).
\* Stated on layouts with a positive placement circle.
C10_BoundingBoxCentred ==
  (entry = "main" /\ number_of_marker >= 3 /\ markers_positions # <<>>
     /\ marker_circle_diameter_mm > 0) =>
    LET xs == {markers_positions[k][1] : k \in DOMAIN markers_positions}
        ys == {markers_positions[k][2] : k \in DOMAIN markers_positions}
        lo(S) == CHOOSE v \in S : \A u \in S : v <= u
        hi(S) == CHOOSE v \in S : \A u \in S : u <= v
    IN  /\ Abs(lo(xs) + hi(xs) - 2 * cx) <= 2 * Tol
        /\ Abs(lo(ys) + hi(ys) - 2 * cy) <= 2 * Tol

====
